---- MODULE Spec2Model ----
(***************************************************************************)
(* A model of BeliefTracker (src/src/belief_system.py): the belief records, *)
(* the change log, the causal links, and the operations on them.           *)
(*                                                                         *)
(* Numbers.  Confidences and strengths are held in thousandths (0.7 is     *)
(* 700).  A decay factor is a fraction n/d with d > 0 (0.95 is 19/20,      *)
(* -0.5 is -1/2).  Time is counted in whole days (24 hours), so the exponent *)
(* hours_passed / 24 of get_belief is an integer and the decayed           *)
(* confidence is the exact fraction n/d (in thousandths).  None of the     *)
(* values the model draws puts a decayed confidence on one of the          *)
(* thresholds 0.1, 0.2, 0.4, 0.7 except by a multiplication by a power of  *)
(* 2, which is exact in floating point, so the exact comparisons agree     *)
(* with the floating-point ones of the code.                               *)
(*                                                                         *)
(* Python's None is the string "None"; no belief value of the model is     *)
(* that string.  A text is a sequence of one-character strings.            *)
(***************************************************************************)
EXTENDS Integers, Sequences, FiniteSets, TLC

VARIABLES
    beliefs,         \* self.beliefs: key -> record, a dict (domain = keys present)
    belief_history,  \* self.belief_history: the list of change events
    causal_links,    \* self.causal_links: cause -> list of links, a dict
    now,             \* what datetime.utcnow() returns, in days
    seeded,          \* 1 once initialize_default_beliefs has run, else 0
    calls            \* thread -> the call it is in (position and locals), or the request
                     \* it served last and what was returned

vars == <<beliefs, belief_history, causal_links, now, seeded, calls>>

-----------------------------------------------------------------------------
(* Bounds of the model *)

\* the clock runs over 0..MaxClock days
MaxClock == 2
\* change events appended by callers, beyond the 10 of the seeding
MaxHistory == 2
\* links added by callers, beyond the 6 of the seeding
MaxLinks == 2

-----------------------------------------------------------------------------
(* Python values *)

None == "None"

\* the result of a call: a returned value, or an exception raised
Returned(kind, value) == [kind |-> kind, value |-> value]
ReturnedNone == [kind |-> "None", value |-> None]
Raised(exc) == [kind |-> "raise", value |-> exc]

\* a dict as a function: d[key] = value, the other keys kept
DictSet(d, key, value) == [k \in (DOMAIN d) \cup {key} |-> IF k = key THEN value ELSE d[k]]

EmptyDict == [k \in {} |-> None]

RECURSIVE IntPow(_, _)
IntPow(b, e) == IF e = 0 THEN 1 ELSE b * IntPow(b, e - 1)

\* fractions n/d with d > 0
Frac(n, d) == [n |-> n, d |-> d]
FracLt(a, b) == a.n * b.d < b.n * a.d
FracLe(a, b) == a.n * b.d <= b.n * a.d
FracEq(a, b) == a.n * b.d = b.n * a.d
Milli(m) == Frac(m, 1)

-----------------------------------------------------------------------------
(* The keys, values and numbers the calls are made with *)

DefaultDecay == Frac(19, 20)
DefaultStrength == 500

\* initialize_default_beliefs: default_beliefs, in order
default_beliefs ==
    << <<"fed_policy", "neutral", 600>>,
       <<"inflation_trend", "moderate", 500>>,
       <<"market_sentiment", "cautious", 700>>,
       <<"economic_growth", "steady", 600>>,
       <<"interest_rates", "stable", 800>>,
       <<"consumer_confidence", "moderate", 500>>,
       <<"corporate_earnings", "growing", 600>>,
       <<"geopolitical_risk", "elevated", 700>>,
       <<"technology_disruption", "accelerating", 800>>,
       <<"energy_transition", "ongoing", 900>> >>

\* initialize_default_beliefs: causal_relationships, in order
causal_relationships ==
    << <<"fed_policy", "interest_rates", 900>>,
       <<"interest_rates", "market_sentiment", 700>>,
       <<"inflation_trend", "fed_policy", 800>>,
       <<"economic_growth", "corporate_earnings", 800>>,
       <<"geopolitical_risk", "market_sentiment", 600>>,
       <<"consumer_confidence", "economic_growth", 700>> >>

\* the key callers update directly: one that neither the seed nor a news rule writes
UpdateKeys == {"x"}
\* every key of the model
Keys == {default_beliefs[i][1] : i \in 1..Len(default_beliefs)} \cup UpdateKeys
\* (value, confidence, decay_factor) of the direct updates: 0.9 is in the high tier,
\* 0.3 in the low one and 0.05 is below the floor 0.1; the decay factors 0, 2 and -0.5
\* are outside (0, 1], and update_belief validates nothing
UpdateArgs ==
    { <<"a", 900, Frac(1, 2)>>,
      <<"a", 900, Frac(19, 20)>>,
      <<"a", 50, Frac(1, 1)>>,
      <<"b", 900, Frac(0, 1)>>,
      <<"a", 300, Frac(2, 1)>>,
      <<"b", 900, Frac(-1, 2)>> }

\* the links callers add: from a cause the seed links too, to a key that has a belief
\* only once it is updated directly
LinkCauses == {"fed_policy"}
LinkEffects == {"x"}
LinkStrengths == {DefaultStrength, 900}

\* the keys callers read
ReadKeys == {"fed_policy", "x"}

-----------------------------------------------------------------------------
(* BeliefTracker.update_belief, on the store S = [beliefs, belief_history,  *)
(* causal_links], at time timestamp                                         *)

\* change_event with the confidences of an 'update' event swapped
change_event_swapped(S, key, value, confidence, timestamp) ==
    IF key \in DOMAIN S.beliefs
    THEN [key |-> key,
          old_value |-> S.beliefs[key].value,
          new_value |-> value,
          old_confidence |-> confidence,
          new_confidence |-> S.beliefs[key].confidence,
          timestamp |-> timestamp,
          change_type |-> "update"]
    ELSE [key |-> key,
          old_value |-> None,
          new_value |-> value,
          old_confidence |-> 0,
          new_confidence |-> confidence,
          timestamp |-> timestamp,
          change_type |-> "new"]

\* change_event that takes a key for new when its confidence has decayed to 0.2 or less
change_event_visible(S, key, value, confidence, timestamp) ==
    IF /\ key \in DOMAIN S.beliefs
       /\ LET belief == S.beliefs[key]
              days == timestamp - belief.last_updated
          IN  FracLt(Milli(200), Frac(belief.confidence * IntPow(belief.decay_factor.n, days),
                                      IntPow(belief.decay_factor.d, days)))
    THEN [key |-> key,
          old_value |-> S.beliefs[key].value,
          new_value |-> value,
          old_confidence |-> S.beliefs[key].confidence,
          new_confidence |-> confidence,
          timestamp |-> timestamp,
          change_type |-> "update"]
    ELSE [key |-> key,
          old_value |-> None,
          new_value |-> value,
          old_confidence |-> 0,
          new_confidence |-> confidence,
          timestamp |-> timestamp,
          change_type |-> "new"]

\* lines 17-37: the change event appended
change_event(S, key, value, confidence, timestamp) ==
    IF key \in DOMAIN S.beliefs
    THEN [key |-> key,
          old_value |-> S.beliefs[key].value,
          new_value |-> value,
          old_confidence |-> S.beliefs[key].confidence,
          new_confidence |-> confidence,
          timestamp |-> timestamp,
          change_type |-> "update"]
    ELSE [key |-> key,
          old_value |-> None,
          new_value |-> value,
          old_confidence |-> 0,
          new_confidence |-> confidence,
          timestamp |-> timestamp,
          change_type |-> "new"]

\* belief_record with the count started again at 1
belief_record_recount(S, key, value, confidence, decay_factor, timestamp) ==
    [value |-> value,
     confidence |-> confidence,
     last_updated |-> timestamp,
     decay_factor |-> decay_factor,
     update_count |-> 1]

\* belief_record that keeps the confidence of a record already there
belief_record_keep_confidence(S, key, value, confidence, decay_factor, timestamp) ==
    [value |-> value,
     confidence |-> IF key \in DOMAIN S.beliefs THEN S.beliefs[key].confidence
                    ELSE confidence,
     last_updated |-> timestamp,
     decay_factor |-> decay_factor,
     update_count |-> (IF key \in DOMAIN S.beliefs THEN S.beliefs[key].update_count
                       ELSE 0) + 1]

\* lines 39-45: the record written
belief_record(S, key, value, confidence, decay_factor, timestamp) ==
    [value |-> value,
     confidence |-> confidence,
     last_updated |-> timestamp,
     decay_factor |-> decay_factor,
     update_count |-> (IF key \in DOMAIN S.beliefs THEN S.beliefs[key].update_count ELSE 0) + 1]

\* update_belief that logs a change only when the value changes
update_belief_log_changes(S, key, value, confidence, decay_factor, timestamp) ==
    [S EXCEPT
        !.belief_history =
            IF key \in DOMAIN S.beliefs /\ S.beliefs[key].value = value
            THEN @
            ELSE Append(@, change_event(S, key, value, confidence, timestamp)),
        !.beliefs = DictSet(@, key, belief_record(S, key, value, confidence, decay_factor, timestamp))]

\* update_belief that keeps the newest ten events of the log only
update_belief_capped(S, key, value, confidence, decay_factor, timestamp) ==
    [S EXCEPT
        !.belief_history =
            LET log == Append(@, change_event(S, key, value, confidence, timestamp))
            IN  IF Len(log) > 10 THEN Tail(log) ELSE log,
        !.beliefs = DictSet(@, key, belief_record(S, key, value, confidence, decay_factor, timestamp))]

\* update_belief that stamps every record, not only the one of the key, with the time
update_belief_refresh_all(S, key, value, confidence, decay_factor, timestamp) ==
    [S EXCEPT
        !.belief_history = Append(@, change_event(S, key, value, confidence, timestamp)),
        !.beliefs = DictSet([k \in DOMAIN @ |-> [@[k] EXCEPT !.last_updated = timestamp]],
                            key,
                            belief_record(S, key, value, confidence, decay_factor, timestamp))]

update_belief(S, key, value, confidence, decay_factor, timestamp) ==
    [S EXCEPT
        !.belief_history = Append(@, change_event(S, key, value, confidence, timestamp)),
        !.beliefs = DictSet(@, key, belief_record(S, key, value, confidence, decay_factor, timestamp))]

-----------------------------------------------------------------------------
(* BeliefTracker.get_belief *)

\* line 57: decay_factor ** (hours_passed / 24) raises ZeroDivisionError for 0.0 to a
\* negative power
pow_raises(belief, days) == days < 0 /\ belief.decay_factor.n = 0

\* the power taken with the sign of the exponent turned
decayed_confidence_inverted(belief, days) ==
    Frac(belief.confidence * IntPow(belief.decay_factor.d, days),
         IntPow(belief.decay_factor.n, days))

\* line 57: confidence * decay_factor ** (hours_passed / 24), with days = hours_passed / 24
\* (the fraction is kept with d > 0: a negative decay factor to an odd negative power
\* gives its sign to the numerator)
decayed_confidence(belief, days) ==
    IF days >= 0
    THEN Frac(belief.confidence * IntPow(belief.decay_factor.n, days),
              IntPow(belief.decay_factor.d, days))
    ELSE IF IntPow(belief.decay_factor.n, 0 - days) > 0
    THEN Frac(belief.confidence * IntPow(belief.decay_factor.d, 0 - days),
              IntPow(belief.decay_factor.n, 0 - days))
    ELSE Frac(0 - belief.confidence * IntPow(belief.decay_factor.d, 0 - days),
              0 - IntPow(belief.decay_factor.n, 0 - days))

\* the decayed confidence with no floor under it
current_confidence_unfloored(decayed) == decayed

\* line 58: max(0.1, decayed_confidence)
current_confidence(decayed) ==
    IF FracLt(Milli(100), decayed) THEN decayed ELSE Milli(100)

\* get_belief that indexes the dict without the test of line 49
get_belief_unchecked(S, key, utcnow) ==
    IF key \notin DOMAIN S.beliefs
    THEN Raised("KeyError")
    ELSE LET belief == S.beliefs[key]
             days == utcnow - belief.last_updated
         IN  IF pow_raises(belief, days)
             THEN Raised("ZeroDivisionError")
             ELSE Returned("belief",
                    [value |-> belief.value,
                     confidence |-> belief.confidence,
                     last_updated |-> belief.last_updated,
                     decay_factor |-> belief.decay_factor,
                     update_count |-> belief.update_count,
                     current_confidence |-> current_confidence(decayed_confidence(belief, days))])

\* get_belief that returns the stored confidence as the current one
get_belief_undecayed(S, key, utcnow) ==
    IF key \notin DOMAIN S.beliefs
    THEN ReturnedNone
    ELSE LET belief == S.beliefs[key]
         IN  Returned("belief",
                    [value |-> belief.value,
                     confidence |-> belief.confidence,
                     last_updated |-> belief.last_updated,
                     decay_factor |-> belief.decay_factor,
                     update_count |-> belief.update_count,
                     current_confidence |-> current_confidence(Milli(belief.confidence))])

get_belief(S, key, utcnow) ==
    IF key \notin DOMAIN S.beliefs
    THEN ReturnedNone
    ELSE LET belief == S.beliefs[key]
             days == utcnow - belief.last_updated
         IN  IF pow_raises(belief, days)
             THEN Raised("ZeroDivisionError")
             ELSE Returned("belief",
                    [value |-> belief.value,
                     confidence |-> belief.confidence,
                     last_updated |-> belief.last_updated,
                     decay_factor |-> belief.decay_factor,
                     update_count |-> belief.update_count,
                     current_confidence |-> current_confidence(decayed_confidence(belief, days))])

-----------------------------------------------------------------------------
(* BeliefTracker.get_all_beliefs *)

\* get_all_beliefs with no visibility threshold
get_all_beliefs_unfiltered(S, utcnow) ==
    IF \E key \in DOMAIN S.beliefs : get_belief(S, key, utcnow).kind = "raise"
    THEN Raised("ZeroDivisionError")
    ELSE Returned("dict", [key \in DOMAIN S.beliefs |-> get_belief(S, key, utcnow).value])

get_all_beliefs(S, utcnow) ==
    IF \E key \in DOMAIN S.beliefs : get_belief(S, key, utcnow).kind = "raise"
    THEN Raised("ZeroDivisionError")
    ELSE Returned("dict",
           [key \in {k \in DOMAIN S.beliefs :
                        FracLt(Milli(200), get_belief(S, k, utcnow).value.current_confidence)}
              |-> get_belief(S, key, utcnow).value])

-----------------------------------------------------------------------------
(* BeliefTracker.add_causal_link.  The 'created' stamp of a link, which no  *)
(* operation reads, is left out of the model.                              *)

\* add_causal_link that also files a placeholder record for an effect with no belief
add_causal_link_placeholder(S, cause, effect, strength, utcnow) ==
    [S EXCEPT
        !.causal_links =
            DictSet(@, cause,
                    Append(IF cause \in DOMAIN @ THEN @[cause] ELSE << >>,
                           [effect |-> effect, strength |-> strength])),
        !.beliefs =
            IF effect \in DOMAIN @
            THEN @
            ELSE DictSet(@, effect, [value |-> "unknown", confidence |-> 0,
                                     last_updated |-> utcnow, decay_factor |-> DefaultDecay,
                                     update_count |-> 0])]

\* add_causal_link that keeps one link per (cause, effect): a second call sets the strength
add_causal_link_merge(S, cause, effect, strength, utcnow) ==
    LET links == IF cause \in DOMAIN S.causal_links THEN S.causal_links[cause] ELSE << >>
    IN  [S EXCEPT !.causal_links =
            DictSet(@, cause,
                    IF \E i \in 1..Len(links) : links[i].effect = effect
                    THEN [i \in 1..Len(links) |->
                             IF links[i].effect = effect
                             THEN [effect |-> effect, strength |-> strength]
                             ELSE links[i]]
                    ELSE Append(links, [effect |-> effect, strength |-> strength]))]

add_causal_link(S, cause, effect, strength, utcnow) ==
    [S EXCEPT !.causal_links =
        DictSet(@, cause,
                Append(IF cause \in DOMAIN @ THEN @[cause] ELSE << >>,
                       [effect |-> effect, strength |-> strength]))]

-----------------------------------------------------------------------------
(* BeliefTracker.get_influenced_beliefs *)

\* lines 87-93: the loop over the links of belief_key, from link i on
RECURSIVE influenced_loop(_, _, _, _, _)
influenced_loop(S, links, i, influenced, utcnow) ==
    IF i > Len(links)
    THEN Returned("list", influenced)
    ELSE LET effect_belief == get_belief(S, links[i].effect, utcnow)
         IN  IF effect_belief.kind = "raise"
             THEN effect_belief
             ELSE IF effect_belief.kind = "belief"
             THEN influenced_loop(S, links, i + 1,
                      Append(influenced, [belief |-> effect_belief.value,
                                          influence_strength |-> links[i].strength]),
                      utcnow)
             ELSE influenced_loop(S, links, i + 1, influenced, utcnow)

\* get_influenced_beliefs that reports an effect once, however many links lead to it
get_influenced_beliefs_once(S, belief_key, utcnow) ==
    IF belief_key \in DOMAIN S.causal_links
    THEN LET links == S.causal_links[belief_key]
             first == SelectSeq([i \in 1..Len(links) |-> [i |-> i, link |-> links[i]]],
                                LAMBDA e : \A j \in 1..(e.i - 1) : links[j].effect # e.link.effect)
         IN  influenced_loop(S, [i \in 1..Len(first) |-> first[i].link], 1, << >>, utcnow)
    ELSE Returned("list", << >>)

\* get_influenced_beliefs with the threshold of get_all_beliefs on the effects
get_influenced_beliefs_visible(S, belief_key, utcnow) ==
    IF belief_key \in DOMAIN S.causal_links
    THEN influenced_loop(S, SelectSeq(S.causal_links[belief_key],
                                      LAMBDA link :
                                          LET effect_belief == get_belief(S, link.effect, utcnow)
                                          IN  effect_belief.kind = "belief" =>
                                                  FracLt(Milli(200),
                                                         effect_belief.value.current_confidence)),
                         1, << >>, utcnow)
    ELSE Returned("list", << >>)

get_influenced_beliefs(S, belief_key, utcnow) ==
    IF belief_key \in DOMAIN S.causal_links
    THEN influenced_loop(S, S.causal_links[belief_key], 1, << >>, utcnow)
    ELSE Returned("list", << >>)

-----------------------------------------------------------------------------
(* BeliefTracker.get_belief_summary *)

\* {k: v for k, v in d.items() if k in keys}
DictFilter(d, keys) == [k \in keys |-> d[k]]

\* belief_history[-5:]
RecentChangesCount == 5
\* belief_history[:5], the oldest events
LastOf_oldest(seq, n) == IF Len(seq) <= n THEN seq ELSE SubSeq(seq, 1, n)

LastOf(seq, n) == IF Len(seq) <= n THEN seq ELSE SubSeq(seq, Len(seq) - n + 1, Len(seq))

\* get_belief_summary with the bounds of the medium tier left out of it
get_belief_summary_open_medium(S, utcnow) ==
    LET all == get_all_beliefs(S, utcnow)
    IN  IF all.kind = "raise"
        THEN all
        ELSE LET bs == all.value
                 cc(k) == bs[k].current_confidence
             IN  Returned("summary",
                   [total_beliefs |-> Cardinality(DOMAIN bs),
                    high_confidence |->
                        DictFilter(bs, {k \in DOMAIN bs : FracLt(Milli(700), cc(k))}),
                    medium_confidence |->
                        DictFilter(bs, {k \in DOMAIN bs : FracLt(Milli(400), cc(k))
                                                         /\ FracLt(cc(k), Milli(700))}),
                    low_confidence |->
                        DictFilter(bs, {k \in DOMAIN bs : FracLt(cc(k), Milli(400))}),
                    causal_links_count |-> Cardinality(DOMAIN S.causal_links),
                    recent_changes |->
                        IF S.belief_history # << >>
                        THEN LastOf(S.belief_history, RecentChangesCount)
                        ELSE << >>])

get_belief_summary(S, utcnow) ==
    LET all == get_all_beliefs(S, utcnow)
    IN  IF all.kind = "raise"
        THEN all
        ELSE LET bs == all.value
                 cc(k) == bs[k].current_confidence
             IN  Returned("summary",
                   [total_beliefs |-> Cardinality(DOMAIN bs),
                    high_confidence |->
                        DictFilter(bs, {k \in DOMAIN bs : FracLt(Milli(700), cc(k))}),
                    medium_confidence |->
                        DictFilter(bs, {k \in DOMAIN bs : FracLe(Milli(400), cc(k))
                                                         /\ FracLe(cc(k), Milli(700))}),
                    low_confidence |->
                        DictFilter(bs, {k \in DOMAIN bs : FracLt(cc(k), Milli(400))}),
                    causal_links_count |-> Cardinality(DOMAIN S.causal_links),
                    recent_changes |->
                        IF S.belief_history # << >>
                        THEN LastOf(S.belief_history, RecentChangesCount)
                        ELSE << >>])

-----------------------------------------------------------------------------
(* What the reads leave in the tracker.  The records are Python dicts, which  *)
(* are objects: an assignment into the dict a name refers to changes the      *)
(* stored record if the name refers to it, and not if it refers to a copy.    *)

\* belief = self.beliefs[key]: the stored dict itself
belief_copy_alias(S, key) == [stored |-> TRUE, items |-> S.beliefs[key]]

\* line 52: belief = self.beliefs[key].copy(), a dict of its own with the same items
belief_copy(S, key) == [stored |-> FALSE, items |-> S.beliefs[key]]

\* get_belief that stamps the record it reads with the time of the read
get_belief_store_touch(S, key, utcnow) ==
    IF key \notin DOMAIN S.beliefs
    THEN S
    ELSE [S EXCEPT !.beliefs[key].last_updated = utcnow]

\* the tracker after get_belief: line 58 assigns belief['current_confidence']
get_belief_store(S, key, utcnow) ==
    IF key \notin DOMAIN S.beliefs
    THEN S
    ELSE LET belief == belief_copy(S, key)
             days == utcnow - belief.items.last_updated
         IN  IF pow_raises(belief.items, days)
             THEN S
             ELSE IF belief.stored
             THEN [S EXCEPT !.beliefs[key] =
                      DictSet(belief.items, "current_confidence",
                              current_confidence(decayed_confidence(belief.items, days)))]
             ELSE S

\* the tracker after get_all_beliefs, lines 65-66: get_belief on each key (a raise ends
\* the loop; the calls made before it have left what they left)
RECURSIVE get_all_beliefs_loop(_, _, _)
get_all_beliefs_loop(S, keys, utcnow) ==
    IF keys = {}
    THEN S
    ELSE LET key == CHOOSE k \in keys : TRUE
         IN  IF get_belief(S, key, utcnow).kind = "raise"
             THEN S
             ELSE get_all_beliefs_loop(get_belief_store(S, key, utcnow), keys \ {key}, utcnow)

\* get_all_beliefs that deletes the records it leaves out of its result
get_all_beliefs_store_purge(S, utcnow) ==
    IF get_all_beliefs(S, utcnow).kind = "raise"
    THEN S
    ELSE [S EXCEPT !.beliefs = DictFilter(@, DOMAIN get_all_beliefs(S, utcnow).value)]

get_all_beliefs_store(S, utcnow) == get_all_beliefs_loop(S, DOMAIN S.beliefs, utcnow)

\* the tracker after get_influenced_beliefs, lines 87-88: get_belief on each effect
RECURSIVE get_influenced_beliefs_loop(_, _, _, _)
get_influenced_beliefs_loop(S, links, i, utcnow) ==
    IF i > Len(links)
    THEN S
    ELSE IF get_belief(S, links[i].effect, utcnow).kind = "raise"
    THEN S
    ELSE get_influenced_beliefs_loop(get_belief_store(S, links[i].effect, utcnow),
                                     links, i + 1, utcnow)

get_influenced_beliefs_store(S, belief_key, utcnow) ==
    IF belief_key \in DOMAIN S.causal_links
    THEN get_influenced_beliefs_loop(S, S.causal_links[belief_key], 1, utcnow)
    ELSE S

\* the tracker after get_belief_summary: line 99 calls get_all_beliefs, lines 101-115
\* build the result out of new dicts and a slice of the log
get_belief_summary_store(S, utcnow) == get_all_beliefs_store(S, utcnow)

-----------------------------------------------------------------------------
(* BeliefTracker.initialize_default_beliefs *)

\* lines 132-133
RECURSIVE seed_beliefs(_, _, _)
seed_beliefs(S, i, utcnow) ==
    IF i > Len(default_beliefs)
    THEN S
    ELSE seed_beliefs(update_belief(S, default_beliefs[i][1], default_beliefs[i][2],
                                    default_beliefs[i][3], DefaultDecay, utcnow),
                      i + 1, utcnow)

\* seed_links that leaves the strength of each link to the default of add_causal_link
RECURSIVE seed_links_default_strength(_, _, _)
seed_links_default_strength(S, i, utcnow) ==
    IF i > Len(causal_relationships)
    THEN S
    ELSE seed_links_default_strength(
             add_causal_link(S, causal_relationships[i][1], causal_relationships[i][2],
                             DefaultStrength, utcnow),
             i + 1, utcnow)

\* lines 144-145
RECURSIVE seed_links(_, _, _)
seed_links(S, i, utcnow) ==
    IF i > Len(causal_relationships)
    THEN S
    ELSE seed_links(add_causal_link(S, causal_relationships[i][1], causal_relationships[i][2],
                                    causal_relationships[i][3], utcnow),
                    i + 1, utcnow)

initialize_default_beliefs(S, utcnow) ==
    seed_links(seed_beliefs(S, 1, utcnow), 1, utcnow)

-----------------------------------------------------------------------------
(* BeliefTracker.update_beliefs_from_news *)

\* str.lower(), on the letters
UpperCase == <<"A","B","C","D","E","F","G","H","I","J","K","L","M",
               "N","O","P","Q","R","S","T","U","V","W","X","Y","Z">>
LowerCase == <<"a","b","c","d","e","f","g","h","i","j","k","l","m",
               "n","o","p","q","r","s","t","u","v","w","x","y","z">>
lower_char(c) ==
    IF \E i \in 1..Len(UpperCase) : UpperCase[i] = c
    THEN LowerCase[CHOOSE i \in 1..Len(UpperCase) : UpperCase[i] = c]
    ELSE c
lower(text) == [i \in 1..Len(text) |-> lower_char(text[i])]

\* word in text
contains(text, word) ==
    \E i \in 1..(Len(text) - Len(word) + 1) : SubSeq(text, i, i + Len(word) - 1) = word

\* any(word in news_lower for word in words)
any_word_in(news_lower, words) ==
    \E j \in 1..Len(words) : contains(news_lower, words[j])

\* lines 152-170: the five if statements, in order
news_rules ==
    <<       [words |-> <<<<"r","a","t","e"," ","h","i","k","e">>,
                    <<"i","n","t","e","r","e","s","t"," ","r","a","t","e"," ","i","n","c","r","e","a","s","e">>,
                    <<"f","e","d"," ","r","a","i","s","e","s">>>>,
        key |-> "fed_policy", value |-> "tightening", confidence |-> 800,
        description |-> "Updated Fed policy to tightening"],
       [words |-> <<<<"r","a","t","e"," ","c","u","t">>,
                    <<"i","n","t","e","r","e","s","t"," ","r","a","t","e"," ","d","e","c","r","e","a","s","e">>,
                    <<"f","e","d"," ","l","o","w","e","r","s">>>>,
        key |-> "fed_policy", value |-> "easing", confidence |-> 800,
        description |-> "Updated Fed policy to easing"],
       [words |-> <<<<"i","n","f","l","a","t","i","o","n"," ","r","i","s","i","n","g">>,
                    <<"p","r","i","c","e"," ","i","n","c","r","e","a","s","e","s">>,
                    <<"c","p","i"," ","u","p">>>>,
        key |-> "inflation_trend", value |-> "rising", confidence |-> 700,
        description |-> "Updated inflation trend to rising"],
       [words |-> <<<<"m","a","r","k","e","t"," ","c","r","a","s","h">>,
                    <<"s","e","l","l","-","o","f","f">>,
                    <<"p","a","n","i","c">>>>,
        key |-> "market_sentiment", value |-> "fearful", confidence |-> 900,
        description |-> "Updated market sentiment to fearful"],
       [words |-> <<<<"m","a","r","k","e","t"," ","r","a","l","l","y">>,
                    <<"b","u","l","l"," ","m","a","r","k","e","t">>,
                    <<"o","p","t","i","m","i","s","m">>>>,
        key |-> "market_sentiment", value |-> "greedy", confidence |-> 800,
        description |-> "Updated market sentiment to greedy"] >>

\* the news summaries callers pass
\* "Fed raises rates amid inflation rising"
TextFedInflation ==
    <<"F","e","d"," ","r","a","i","s","e","s"," ","r","a","t","e","s"," ","a","m","i","d"," ","i","n","f","l","a","t","i","o","n"," ","r","i","s","i","n","g">>
\* ""
TextEmpty ==
    << >>
\* "Rate cut after rate hike"
TextCutThenHike ==
    <<"R","a","t","e"," ","c","u","t"," ","a","f","t","e","r"," ","r","a","t","e"," ","h","i","k","e">>
\* "PANIC, then Optimism"
TextPanicOptimism ==
    <<"P","A","N","I","C",","," ","t","h","e","n"," ","O","p","t","i","m","i","s","m">>
\* "Quiet day, fed raise"
TextQuiet ==
    <<"Q","u","i","e","t"," ","d","a","y",","," ","f","e","d"," ","r","a","i","s","e">>
Texts == {TextFedInflation, TextEmpty, TextCutThenHike, TextPanicOptimism, TextQuiet}

\* rule_fires with the first rule matching the stem "fed raise" as well
rule_fires_stem == [text \in Texts |-> [i \in 1..Len(news_rules) |->
                        \/ any_word_in(lower(text), news_rules[i].words)
                        \/ i = 1 /\ contains(lower(text), <<"f","e","d"," ","r","a","i","s","e">>)]]

\* which rules fire on each text of the model: the conditions of lines 152-168
rule_fires == [text \in Texts |-> [i \in 1..Len(news_rules) |->
                   any_word_in(lower(text), news_rules[i].words)]]

\* the if statements from rule i on; R = [S, updates]
RECURSIVE news_loop(_, _, _, _)
news_loop(R, text, i, utcnow) ==
    IF i > Len(news_rules)
    THEN R
    ELSE IF rule_fires[text][i]
    THEN news_loop([S |-> update_belief(R.S, news_rules[i].key, news_rules[i].value,
                                        news_rules[i].confidence, DefaultDecay, utcnow),
                    updates |-> Append(R.updates, news_rules[i].description)],
                   text, i + 1, utcnow)
    ELSE news_loop(R, text, i + 1, utcnow)

\* the if statements as one if / elif chain: the first rule that fires is the only one
RECURSIVE news_loop_first(_, _, _, _)
news_loop_first(R, text, i, utcnow) ==
    IF i > Len(news_rules)
    THEN R
    ELSE IF rule_fires[text][i]
    THEN [S |-> update_belief(R.S, news_rules[i].key, news_rules[i].value,
                              news_rules[i].confidence, DefaultDecay, utcnow),
          updates |-> Append(R.updates, news_rules[i].description)]
    ELSE news_loop_first(R, text, i + 1, utcnow)

update_beliefs_from_news_first(S, news_summary, utcnow) ==
    news_loop_first([S |-> S, updates |-> << >>], news_summary, 1, utcnow)

update_beliefs_from_news(S, news_summary, utcnow) ==
    news_loop([S |-> S, updates |-> << >>], news_summary, 1, utcnow)

-----------------------------------------------------------------------------
(* The tracker and the calls made on it *)

Store == [beliefs |-> beliefs, belief_history |-> belief_history, causal_links |-> causal_links]

SetStore(S) ==
    /\ beliefs' = S.beliefs
    /\ belief_history' = S.belief_history
    /\ causal_links' = S.causal_links

\* the threads of the HTTP server that handle requests on the one tracker
Threads == {1, 2}
Idle == [pc |-> "idle"]

\* BeliefTracker.__init__
Init ==
    /\ beliefs = EmptyDict
    /\ belief_history = << >>
    /\ causal_links = EmptyDict
    /\ now = 0
    /\ seeded = 0
    /\ calls = [t \in Threads |-> Idle]

\* change events and links the callers of the model may still add
HistoryRoom(n) == Len(belief_history) + n <= MaxHistory + seeded * Len(default_beliefs)
LinkCount ==
    LET RECURSIVE Sum(_)
        Sum(ks) == IF ks = {} THEN 0
                   ELSE LET k == CHOOSE k \in ks : TRUE
                        IN  Len(causal_links[k]) + Sum(ks \ {k})
    IN  Sum(DOMAIN causal_links)
LinkRoom == LinkCount < MaxLinks + seeded * Len(causal_relationships)

UpdateBelief(key, value, confidence, decay_factor) ==
    /\ HistoryRoom(1)
    /\ SetStore(update_belief(Store, key, value, confidence, decay_factor, now))
    /\ UNCHANGED <<now, seeded, calls>>

\* What a call returns is the value of its operator in the state it is made in:
\* update_beliefs_from_news(Store, text, now).updates, get_belief(Store, key, now), ...
\* What a read leaves in the tracker is the value of its ..._store operator.
GetBelief(key) ==
    /\ get_belief(Store, key, now).kind \in {"None", "belief", "raise"}
    /\ SetStore(get_belief_store(Store, key, now))
    /\ UNCHANGED <<now, seeded, calls>>

GetAllBeliefs ==
    /\ get_all_beliefs(Store, now).kind \in {"dict", "raise"}
    /\ SetStore(get_all_beliefs_store(Store, now))
    /\ UNCHANGED <<now, seeded, calls>>

\* (callers add a link once: a (cause, effect) pair is added again with another strength)
AddCausalLink(cause, effect, strength) ==
    /\ LinkRoom
    /\ \A i \in 1..Len(IF cause \in DOMAIN causal_links THEN causal_links[cause] ELSE << >>) :
          causal_links[cause][i] # [effect |-> effect, strength |-> strength]
    /\ SetStore(add_causal_link(Store, cause, effect, strength, now))
    /\ UNCHANGED <<now, seeded, calls>>

GetInfluencedBeliefs(belief_key) ==
    /\ get_influenced_beliefs(Store, belief_key, now).kind \in {"list", "raise"}
    /\ SetStore(get_influenced_beliefs_store(Store, belief_key, now))
    /\ UNCHANGED <<now, seeded, calls>>

GetBeliefSummary ==
    /\ get_belief_summary(Store, now).kind \in {"summary", "raise"}
    /\ SetStore(get_belief_summary_store(Store, now))
    /\ UNCHANGED <<now, seeded, calls>>

\* BuffettAgent.__init__ (src/src/buffett_agent.py, lines 25-26): the seeding follows
\* the construction, before any other call
InitializeDefaultBeliefs ==
    /\ seeded = 0
    /\ beliefs = EmptyDict /\ belief_history = << >> /\ causal_links = EmptyDict
    /\ SetStore(initialize_default_beliefs(Store, now))
    /\ seeded' = 1
    /\ UNCHANGED <<now, calls>>

UpdateBeliefsFromNews(news_summary) ==
    /\ LET R == update_beliefs_from_news(Store, news_summary, now)
       IN  /\ HistoryRoom(Len(R.updates))
           /\ SetStore(R.S)
    /\ UNCHANGED <<now, seeded, calls>>

\* a day passes between two calls
Tick ==
    /\ now < MaxClock
    /\ now' = now + 1
    /\ UNCHANGED <<beliefs, belief_history, causal_links, seeded, calls>>

\* datetime.utcnow() is the wall clock: it is set back a day between two calls
ClockSetBack ==
    /\ now > 0
    /\ now' = now - 1
    /\ UNCHANGED <<beliefs, belief_history, causal_links, seeded, calls>>

Next ==
    \/ \E key \in UpdateKeys, args \in UpdateArgs :
            UpdateBelief(key, args[1], args[2], args[3])
    \/ \E key \in ReadKeys : GetBelief(key)
    \/ GetAllBeliefs
    \/ \E cause \in LinkCauses, effect \in LinkEffects, strength \in LinkStrengths :
            AddCausalLink(cause, effect, strength)
    \/ \E belief_key \in ReadKeys : GetInfluencedBeliefs(belief_key)
    \/ GetBeliefSummary
    \/ InitializeDefaultBeliefs
    \/ \E news_summary \in Texts : UpdateBeliefsFromNews(news_summary)
    \/ Tick

Spec == Init /\ [][Next]_vars

\* the same calls under a wall clock that is also set back between them
NextSkew ==
    \/ Next
    \/ ClockSetBack

SpecSkew == Init /\ [][NextSkew]_vars

-----------------------------------------------------------------------------
(* The tracker shared by the request handlers (src/src/routes/buffett_routes.py, *)
(* line 10: one module-level agent; src/src/main.py, line 59: app.run, which    *)
(* serves each request in a thread of its own).  update_belief takes no lock:   *)
(* a thread may be switched out between its statements.                         *)

\* the update_belief calls the handlers make, through update_beliefs_from_news: the
\* (key, value, confidence) of rules 1, 2 and 4
HandlerUpdates == {<<news_rules[i].key, news_rules[i].value, news_rules[i].confidence>> :
                      i \in {1, 2, 4}}

\* calls begun and not yet logged
Unlogged == Cardinality({t \in Threads : calls[t].pc = "append"})

\* lines 15-17: timestamp = datetime.utcnow(); old_belief = self.beliefs.get(key).
\* The event of lines 19-37 is made of the arguments and these two locals only, so it
\* is fixed here.
CallUpdateBelief(t, key, value, confidence, decay_factor) ==
    /\ seeded = 1
    /\ calls[t].pc = "idle"
    /\ HistoryRoom(Unlogged + 1)
    /\ calls' = [calls EXCEPT ![t] =
                    [pc |-> "append", key |-> key, value |-> value,
                     confidence |-> confidence, decay_factor |-> decay_factor,
                     timestamp |-> now,
                     event |-> change_event(Store, key, value, confidence, now)]]
    /\ UNCHANGED <<beliefs, belief_history, causal_links, now, seeded>>

\* lines 18-37: self.belief_history.append(...)
AppendChange(t) ==
    /\ calls[t].pc = "append"
    /\ belief_history' = Append(belief_history, calls[t].event)
    /\ calls' = [calls EXCEPT ![t].pc = "build"]
    /\ UNCHANGED <<beliefs, causal_links, now, seeded>>

\* lines 39-45, right-hand side: the dict is built, its update_count read from
\* self.beliefs as it is now (line 44)
BuildRecord(t) ==
    /\ calls[t].pc = "build"
    /\ calls' = [calls EXCEPT ![t] =
                    [pc |-> "write", key |-> calls[t].key,
                     record |-> belief_record(Store, calls[t].key, calls[t].value,
                                              calls[t].confidence, calls[t].decay_factor,
                                              calls[t].timestamp)]]
    /\ UNCHANGED <<beliefs, belief_history, causal_links, now, seeded>>

\* line 39, the store: self.beliefs[key] = the dict built
WriteRecord(t) ==
    /\ calls[t].pc = "write"
    /\ beliefs' = DictSet(beliefs, calls[t].key, calls[t].record)
    /\ calls' = [calls EXCEPT ![t] = Idle]
    /\ UNCHANGED <<belief_history, causal_links, now, seeded>>

\* the handlers: updates in steps, reads in one step each (the reader is given the most:
\* a read that no writer interrupts)
NextConcurrent ==
    \/ InitializeDefaultBeliefs
    \/ \E t \in Threads, args \in HandlerUpdates :
            CallUpdateBelief(t, args[1], args[2], args[3], DefaultDecay)
    \/ \E t \in Threads : AppendChange(t)
    \/ \E t \in Threads : BuildRecord(t)
    \/ \E t \in Threads : WriteRecord(t)
    \/ \E key \in ReadKeys : GetBelief(key)
    \/ GetAllBeliefs
    \/ GetBeliefSummary
    \/ Tick

SpecConcurrent == Init /\ [][NextConcurrent]_vars

-----------------------------------------------------------------------------
(* The requests of the agent (src/src/buffett_agent.py): process_query and       *)
(* get_portfolio_analysis call the collaborators (RAG, ticker parser, news and  *)
(* market data, language model) and feed the news they fetch to the tracker.    *)

\* lines 316-332, get_news_about_symbols: the loop over news_list
RECURSIVE news_list_loop(_, _, _, _)
news_list_loop(S, news_list, i, utcnow) ==
    IF i > Len(news_list)
    THEN S
    ELSE news_list_loop(update_beliefs_from_news(S, news_list[i], utcnow).S,
                        news_list, i + 1, utcnow)

\* lines 316-332: get_news_from_finnhub raises or returns news_list, and every
\* single_news of it goes to update_beliefs_from_news
get_news_about_symbols(S, news_list, failure, utcnow) ==
    IF failure = "news"
    THEN [kind |-> "raise", S |-> S]
    ELSE [kind |-> "return", S |-> news_list_loop(S, news_list, 1, utcnow)]

\* lines 294-304: the except branch
error_result(S, session_id, e) ==
    [kind |-> "return", S |-> S,
     result |-> [confidence_score |-> 100, session_id |-> session_id, error |-> e]]

\* lines 276-292: the result of a query that went through (no 'error' key)
query_result(S, session_id, context, tool_results) ==
    LET confidence_score == 800 + (IF tool_results THEN 100 ELSE 0)
                                + (IF context THEN 100 ELSE 0)
    IN  [kind |-> "return", S |-> S,
         result |-> [confidence_score |-> IF confidence_score < 1000
                                          THEN confidence_score ELSE 1000,
                     session_id |-> session_id, error |-> None]]

\* process_query with the model call made after the try statement
process_query_llm_outside(S, session_id, q, utcnow) ==
    IF q.failure = "rag" \/ q.failure = "tickers"
    THEN error_result(S, session_id, q.failure)
    ELSE LET news == IF q.tickers
                     THEN get_news_about_symbols(S, q.news_list, q.failure, utcnow)
                     ELSE [kind |-> "return", S |-> S]
         IN  IF news.kind = "raise"
             THEN error_result(news.S, session_id, q.failure)
             ELSE IF q.tool_calls /\ q.failure = "market"
             THEN error_result(news.S, session_id, q.failure)
             ELSE IF \/ get_belief_summary(news.S, utcnow).kind = "raise"
                     \/ get_all_beliefs(news.S, utcnow).kind = "raise"
             THEN error_result(news.S, session_id, "beliefs")
             ELSE IF q.failure = "llm"
             THEN [kind |-> "raise", S |-> news.S]
             ELSE query_result(news.S, session_id, q.context, q.tool_calls)

\* lines 196-304, process_query(user_message, session_id).  q says what the
\* collaborators do with user_message: context found or not (line 199), tickers found
\* or not (line 202), the news fetched for them (line 206), tool calls found or not
\* (line 207), and the collaborator that raises when it is called, if any.
process_query(S, session_id, q, utcnow) ==
    IF q.failure = "rag" \/ q.failure = "tickers"
    THEN error_result(S, session_id, q.failure)
    ELSE LET news == IF q.tickers
                     THEN get_news_about_symbols(S, q.news_list, q.failure, utcnow)
                     ELSE [kind |-> "return", S |-> S]
         IN  IF news.kind = "raise"
             THEN error_result(news.S, session_id, q.failure)
             ELSE IF q.tool_calls /\ q.failure = "market"
             THEN error_result(news.S, session_id, q.failure)
             ELSE IF \/ get_belief_summary(news.S, utcnow).kind = "raise"
                     \/ get_all_beliefs(news.S, utcnow).kind = "raise"
             THEN error_result(news.S, session_id, "beliefs")
             ELSE IF q.failure = "llm"
             THEN error_result(news.S, session_id, q.failure)
             ELSE query_result(news.S, session_id, q.context, q.tool_calls)

\* lines 334-351, get_portfolio_analysis(symbols): the news first, then the metrics.
\* A metrics list that is not empty raises at line 344 (tick_info.items() of a dict
\* of one entry does not unpack into symbol, metrics).
get_portfolio_analysis(S, q, utcnow) ==
    LET news == get_news_about_symbols(S, q.news_list, q.failure, utcnow)
    IN  IF news.kind = "raise"
        THEN [kind |-> "raise", S |-> news.S]
        ELSE IF q.failure = "market" \/ q.metrics
        THEN [kind |-> "raise", S |-> news.S]
        ELSE [kind |-> "list", S |-> news.S]

\* src/src/routes/buffett_routes.py, lines 146-166, analyze_portfolio: the list that
\* get_portfolio_analysis returns has no items() (line 154), so every request ends in
\* the except branch
analyze_portfolio(S, q, utcnow) ==
    LET analysis == get_portfolio_analysis(S, q, utcnow)
    IN  [S |-> analysis.S, result |-> [status |-> 500]]

\* the queries sent: what the collaborators do with each
Query(context, tickers, news_list, tool_calls, failure) ==
    [context |-> context, tickers |-> tickers, news_list |-> news_list,
     tool_calls |-> tool_calls, failure |-> failure]
Queries ==
    { Query(TRUE, TRUE, <<TextFedInflation>>, TRUE, None),
      Query(FALSE, FALSE, << >>, FALSE, None),
      Query(TRUE, TRUE, <<TextFedInflation>>, FALSE, "llm"),
      Query(TRUE, TRUE, <<TextQuiet, TextCutThenHike>>, TRUE, "market"),
      Query(TRUE, TRUE, <<TextFedInflation>>, FALSE, "news"),
      Query(FALSE, FALSE, << >>, FALSE, "rag"),
      Query(TRUE, FALSE, << >>, FALSE, "tickers"),
      Query(TRUE, FALSE, <<TextFedInflation>>, FALSE, "news"),
      Query(TRUE, TRUE, <<TextQuiet>>, TRUE, "llm") }
SessionIds == {"s1", "s2"}

\* the portfolios sent
Portfolio(news_list, metrics, failure) ==
    [news_list |-> news_list, metrics |-> metrics, failure |-> failure]
Portfolios ==
    { Portfolio(<<TextFedInflation>>, TRUE, None),
      Portfolio(<< >>, FALSE, None),
      Portfolio(<<TextQuiet>>, TRUE, "market"),
      Portfolio(<<TextCutThenHike>>, TRUE, "news") }

\* the change events a request may add
NewsRoom(S) == Len(S.belief_history) <= MaxHistory + seeded * Len(default_beliefs)

\* routes/buffett_routes.py, lines 12-31: the chat handler calls process_query; the
\* thread keeps the request and what was returned to it
ProcessQuery(t, session_id, q) ==
    /\ seeded = 1
    /\ calls[t].pc = "idle"
    /\ LET R == process_query(Store, session_id, q, now)
       IN  /\ NewsRoom(R.S)
           /\ SetStore(R.S)
           /\ calls' = [calls EXCEPT ![t] =
                          [pc |-> "idle", request |-> "process_query",
                           session_id |-> session_id, q |-> q,
                           kind |-> R.kind,
                           result |-> IF R.kind = "return" THEN R.result ELSE None]]
    /\ UNCHANGED <<now, seeded>>

AnalyzePortfolio(t, q) ==
    /\ seeded = 1
    /\ calls[t].pc = "idle"
    /\ LET R == analyze_portfolio(Store, q, now)
       IN  /\ NewsRoom(R.S)
           /\ SetStore(R.S)
           /\ calls' = [calls EXCEPT ![t] =
                          [pc |-> "idle", request |-> "analyze_portfolio", q |-> q,
                           kind |-> "return", result |-> R.result]]
    /\ UNCHANGED <<now, seeded>>

\* the handler thread of the requests (they are served one after the other here)
Handler == 1

NextRequests ==
    \/ InitializeDefaultBeliefs
    \/ \E session_id \in SessionIds, q \in Queries : ProcessQuery(Handler, session_id, q)
    \/ \E q \in Portfolios : AnalyzePortfolio(Handler, q)
    \/ GetBeliefSummary
    \/ Tick

SpecRequests == Init /\ [][NextRequests]_vars

-----------------------------------------------------------------------------
(* The claims *)

\* the keys some update_belief call was made on, read off the change log
UpdatedKeys == {belief_history[i].key : i \in 1..Len(belief_history)}

\* the number of rules that fire on a text
FiringCount(text) == Cardinality({i \in 1..Len(news_rules) : rule_fires[text][i]})

\* C1: after update_belief(k, v, c, d) returns, get_belief(k) returns a belief whose
\* value is v and whose update_count is one more than the count k had before the call,
\* or 1 if k had no record.
C1_UpdateThenGet ==
    [][\A key \in UpdateKeys, args \in UpdateArgs :
          UpdateBelief(key, args[1], args[2], args[3]) =>
              LET got == get_belief(Store', key, now')
              IN  /\ got.kind = "belief"
                  /\ got.value.value = args[1]
                  /\ got.value.update_count =
                        IF key \in DOMAIN beliefs THEN beliefs[key].update_count + 1 ELSE 1]_vars

\* a key updated twice: created, then updated to another value
C1_Witness ==
    /\ "x" \in DOMAIN beliefs
    /\ beliefs["x"].update_count = 2
    /\ belief_history[Len(belief_history)].old_value # None
    /\ belief_history[Len(belief_history)].old_value # beliefs["x"].value

\* C2: get_belief returns None, and raises nothing, for every key no update_belief was
\* ever made on, directly, through update_beliefs_from_news or through the seeding;
\* no other operation makes a key present.
C2_NeverUpdatedIsAbsent ==
    \A key \in Keys :
        key \notin UpdatedKeys =>
            /\ get_belief(Store, key, now) = ReturnedNone
            /\ key \notin DOMAIN beliefs

\* the tracker is seeded and links to "x" were added, and "x" was never updated
C2_Witness ==
    /\ seeded = 1
    /\ "x" \notin UpdatedKeys
    /\ \E i \in 1..Len(causal_links["fed_policy"]) : causal_links["fed_policy"][i].effect = "x"
    /\ get_belief(Store, "x", now).kind = "None"
    /\ get_belief(Store, "fed_policy", now).kind = "belief"

\* C3: the change log grows by exactly one event per update_belief call, those made by
\* update_beliefs_from_news (one per firing rule) and by the seeding (one per default
\* belief) included, and by none in any other operation; it is empty at construction.
C3_LogCountsUpdates ==
    [][LET grown == Len(belief_history') - Len(belief_history)
       IN  /\ (\E key \in UpdateKeys, args \in UpdateArgs :
                  UpdateBelief(key, args[1], args[2], args[3])) => grown = 1
           /\ \A text \in Texts : UpdateBeliefsFromNews(text) => grown = FiringCount(text)
           /\ InitializeDefaultBeliefs => grown = 10 /\ Len(belief_history) = 0
           /\ (\E cause \in LinkCauses, effect \in LinkEffects, strength \in LinkStrengths :
                  AddCausalLink(cause, effect, strength)) => grown = 0
           /\ Tick => grown = 0]_vars

\* the seeding, then an update that keeps the value of the key, then another update
C3_Witness ==
    /\ seeded = 1
    /\ Len(belief_history) = 12
    /\ belief_history[11].key = "x"
    /\ belief_history[12].key = "x"
    /\ belief_history[12].old_value = belief_history[12].new_value

\* C4: update_belief(k, v, c, d) on a key with a record appends an event of type
\* 'update' whose old_value and old_confidence are the stored value and the stored
\* (undecayed) confidence of that record, and whose new_value and new_confidence are v
\* and c; on a key with no record it appends an event of type 'new' with old_value None
\* and old_confidence 0.0.
C4_EventOfUpdate ==
    [][\A key \in UpdateKeys, args \in UpdateArgs :
          UpdateBelief(key, args[1], args[2], args[3]) =>
              LET event == belief_history'[Len(belief_history')]
              IN  /\ belief_history' = Append(belief_history, event)
                  /\ event.key = key
                  /\ event.new_value = args[1]
                  /\ event.new_confidence = args[2]
                  /\ IF key \in DOMAIN beliefs
                     THEN /\ event.change_type = "update"
                          /\ event.old_value = beliefs[key].value
                          /\ event.old_confidence = beliefs[key].confidence
                     ELSE /\ event.change_type = "new"
                          /\ event.old_value = None
                          /\ event.old_confidence = 0]_vars

\* an 'update' event written a day after the record it replaces, with another value and
\* another confidence, the old one above its decayed value
C4_Witness ==
    \E i \in 1..Len(belief_history) :
        /\ belief_history[i].change_type = "update"
        /\ belief_history[i].key = "x"
        /\ belief_history[i].old_value # belief_history[i].new_value
        /\ belief_history[i].old_confidence = 900
        /\ belief_history[i].new_confidence = 300
        /\ i > 1 /\ belief_history[i - 1].key = "x"
        /\ belief_history[i - 1].timestamp < belief_history[i].timestamp

\* what get_belief returns as current_confidence of a present key (when it returns)
CurrentOf(key) == get_belief(Store, key, now).value.current_confidence
Returns(key) == get_belief(Store, key, now).kind = "belief"

\* C5, as claimed: for every present key, at every query time, the current_confidence
\* get_belief returns lies in [0.1, stored confidence], whatever confidence and
\* decay_factor update_belief was given.
C5_AsClaimed ==
    \A key \in DOMAIN beliefs :
        Returns(key) =>
            /\ FracLe(Milli(100), CurrentOf(key))
            /\ FracLe(CurrentOf(key), Milli(beliefs[key].confidence))

\* C5, amended: the current_confidence get_belief returns is never below 0.1, and it
\* is at most max(0.1, stored confidence) when the decay_factor is in [0, 1] and the
\* query time is not before last_updated.
C5_FloorAndCeiling ==
    \A key \in DOMAIN beliefs :
        Returns(key) =>
            /\ FracLe(Milli(100), CurrentOf(key))
            /\ ( /\ beliefs[key].decay_factor.n >= 0
                 /\ beliefs[key].decay_factor.n <= beliefs[key].decay_factor.d
                 /\ now >= beliefs[key].last_updated )
               => \/ FracLe(CurrentOf(key), Milli(beliefs[key].confidence))
                  \/ FracEq(CurrentOf(key), Milli(100))

\* a confidence of 0.9 read a day later: decayed to nothing and held at the floor, or
\* decayed to a value strictly between the floor and 0.9
C5_Witness ==
    /\ "x" \in DOMAIN beliefs
    /\ beliefs["x"].confidence = 900
    /\ beliefs["x"].decay_factor = Frac(0, 1)
    /\ now > beliefs["x"].last_updated
    /\ FracEq(CurrentOf("x"), Milli(100))
    /\ \E key \in DOMAIN beliefs :
          /\ FracLt(Milli(100), CurrentOf(key))
          /\ FracLt(CurrentOf(key), Milli(beliefs[key].confidence))

\* C6: get_all_beliefs returns exactly the present keys whose current_confidence, as
\* get_belief computes it, is strictly greater than 0.2, each with what get_belief returns.
C6_VisibleOnly ==
    LET all == get_all_beliefs(Store, now)
    IN  all.kind = "dict" =>
            /\ DOMAIN all.value = {key \in DOMAIN beliefs : FracLt(Milli(200), CurrentOf(key))}
            /\ \A key \in DOMAIN all.value : all.value[key] = get_belief(Store, key, now).value

\* a key that was in get_all_beliefs and has decayed out of it, beside keys still in it
C6_Witness ==
    /\ seeded = 1
    /\ "x" \in DOMAIN beliefs
    /\ beliefs["x"].confidence = 900
    /\ "x" \notin DOMAIN get_all_beliefs(Store, now).value
    /\ "fed_policy" \in DOMAIN get_all_beliefs(Store, now).value

\* C7: the high (> 0.7), medium (0.4 <= x <= 0.7) and low (< 0.4) maps of
\* get_belief_summary are pairwise disjoint, their union is the key set of
\* get_all_beliefs, and total_beliefs is the sum of their sizes.
C7_TiersPartition ==
    LET summary == get_belief_summary(Store, now)
        all == get_all_beliefs(Store, now)
    IN  summary.kind = "summary" =>
            LET high == DOMAIN summary.value.high_confidence
                medium == DOMAIN summary.value.medium_confidence
                low == DOMAIN summary.value.low_confidence
            IN  /\ high \cap medium = {}
                /\ high \cap low = {}
                /\ medium \cap low = {}
                /\ high \cup medium \cup low = DOMAIN all.value
                /\ summary.value.total_beliefs
                      = Cardinality(high) + Cardinality(medium) + Cardinality(low)
                /\ \A key \in high : FracLt(Milli(700), CurrentOf(key))
                /\ \A key \in medium : FracLe(Milli(400), CurrentOf(key))
                                       /\ FracLe(CurrentOf(key), Milli(700))
                /\ \A key \in low : FracLt(CurrentOf(key), Milli(400))

\* the three tiers all hold a key, one of them with a current_confidence of exactly 0.7
C7_Witness ==
    LET summary == get_belief_summary(Store, now).value
    IN  /\ summary.high_confidence # EmptyDict
        /\ summary.low_confidence # EmptyDict
        /\ \E key \in DOMAIN summary.medium_confidence : FracEq(CurrentOf(key), Milli(700))

\* the links out of a cause, in the order they were added
LinksOf(cause) == IF cause \in DOMAIN causal_links THEN causal_links[cause] ELSE << >>

\* C8: get_influenced_beliefs(c) returns one entry for each link out of c whose effect
\* has a belief record, duplicates of a (cause, effect) pair included, in the order the
\* links were added, each with the strength of its link and what get_belief returns for
\* the effect; links to effects with no record give no entry, no link gives no entry.
C8_InfluencedPerLink ==
    \A cause \in Keys :
        LET influenced == get_influenced_beliefs(Store, cause, now)
            resolved == SelectSeq(LinksOf(cause), LAMBDA link : link.effect \in DOMAIN beliefs)
        IN  influenced.kind = "list" =>
                /\ Len(influenced.value) = Len(resolved)
                /\ \A i \in 1..Len(resolved) :
                      /\ influenced.value[i].influence_strength = resolved[i].strength
                      /\ influenced.value[i].belief
                            = get_belief(Store, resolved[i].effect, now).value

\* a cause with a seeded link and two links to the same effect, of different strengths,
\* all three resolved
C8_Witness ==
    /\ Len(LinksOf("fed_policy")) = 3
    /\ LinksOf("fed_policy")[2].effect = LinksOf("fed_policy")[3].effect
    /\ LinksOf("fed_policy")[2].strength # LinksOf("fed_policy")[3].strength
    /\ Len(get_influenced_beliefs(Store, "fed_policy", now).value) = 3

\* C9: add_causal_link(c, e, s) succeeds when neither c nor e has a belief record, and
\* writes no belief record and no change event; while that link is the only one out of
\* c, get_influenced_beliefs(c) is empty as long as e has no record, e gets a record by
\* an update_belief on e only, and from then on get_influenced_beliefs(c) is one
\* entry, the belief of e with influence_strength s.
C9_LinkThenUpdate ==
    [][/\ \A cause \in LinkCauses, effect \in LinkEffects, strength \in LinkStrengths :
             AddCausalLink(cause, effect, strength) =>
                 /\ beliefs' = beliefs
                 /\ belief_history' = belief_history
                 /\ LinksOf(cause)' = Append(LinksOf(cause),
                                             [effect |-> effect, strength |-> strength])
       /\ \A effect \in LinkEffects :
             (effect \notin DOMAIN beliefs /\ effect \in DOMAIN beliefs') =>
                 /\ belief_history'[Len(belief_history')].key = effect
                 /\ Len(belief_history') = Len(belief_history) + 1
       /\ \A cause \in Keys :
             Len(LinksOf(cause)') = 1 =>
                 LET link == LinksOf(cause)'[1]
                     influenced == get_influenced_beliefs(Store', cause, now')
                 IN  IF link.effect \in DOMAIN beliefs'
                     THEN influenced = Returned("list",
                              << [belief |-> get_belief(Store', link.effect, now').value,
                                  influence_strength |-> link.strength] >>)
                     ELSE influenced = Returned("list", << >>)]_vars

\* the only link out of a cause that has no belief, its effect updated once: the one
\* entry of get_influenced_beliefs has the strength of the link
C9_Witness ==
    /\ seeded = 0
    /\ "fed_policy" \notin DOMAIN beliefs
    /\ LinksOf("fed_policy") = << [effect |-> "x", strength |-> 900] >>
    /\ "x" \in DOMAIN beliefs
    /\ beliefs["x"].update_count = 1
    /\ Len(get_influenced_beliefs(Store, "fed_policy", now).value) = 1
    /\ get_influenced_beliefs(Store, "fed_policy", now).value[1].influence_strength = 900

\* the rule table of update_beliefs_from_news as the specification gives it
RuleTable ==
    << [key |-> "fed_policy", value |-> "tightening", confidence |-> 800],
       [key |-> "fed_policy", value |-> "easing", confidence |-> 800],
       [key |-> "inflation_trend", value |-> "rising", confidence |-> 700],
       [key |-> "market_sentiment", value |-> "fearful", confidence |-> 900],
       [key |-> "market_sentiment", value |-> "greedy", confidence |-> 800] >>

\* the rules with a phrase in the lower-cased text, in table order, for the texts of the
\* model: "fed raises" and "inflation rising"; none; "rate hike" and "rate cut";
\* "panic" and "optimism"; none ("fed raise" is no phrase)
ExpectedRules(text) ==
    CASE text = TextFedInflation -> <<1, 3>>
      [] text = TextEmpty -> << >>
      [] text = TextCutThenHike -> <<1, 2>>
      [] text = TextPanicOptimism -> <<4, 5>>
      [] text = TextQuiet -> << >>

\* C10: update_beliefs_from_news runs the five rules in table order; each rule with a
\* phrase in the lower-cased text makes one update_belief(key, value, confidence) and
\* appends one description, so the result is as long as the number of firing rules,
\* and of two firing rules on one key both are logged and the later one's value stays.
\* "Fed raises rates amid inflation rising" returns two descriptions and leaves
\* fed_policy = tightening at 0.8 and inflation_trend = rising at 0.7.
C10_NewsRules ==
    [][\A text \in Texts :
          UpdateBeliefsFromNews(text) =>
              LET fired == ExpectedRules(text)
                  updates == update_beliefs_from_news(Store, text, now).updates
                  n == Len(belief_history)
              IN  /\ Len(updates) = Len(fired)
                  /\ \A j \in 1..Len(fired) : updates[j] = news_rules[fired[j]].description
                  /\ Len(belief_history') = n + Len(fired)
                  /\ SubSeq(belief_history', 1, n) = belief_history
                  /\ \A j \in 1..Len(fired) :
                        /\ belief_history'[n + j].key = RuleTable[fired[j]].key
                        /\ belief_history'[n + j].new_value = RuleTable[fired[j]].value
                        /\ belief_history'[n + j].new_confidence = RuleTable[fired[j]].confidence
                        /\ (j > 1 /\ RuleTable[fired[j - 1]].key = RuleTable[fired[j]].key) =>
                              /\ belief_history'[n + j].change_type = "update"
                              /\ belief_history'[n + j].old_value = RuleTable[fired[j - 1]].value
                        /\ (\A l \in (j + 1)..Len(fired) :
                                RuleTable[fired[l]].key # RuleTable[fired[j]].key) =>
                              /\ beliefs'[RuleTable[fired[j]].key].value = RuleTable[fired[j]].value
                              /\ beliefs'[RuleTable[fired[j]].key].confidence
                                    = RuleTable[fired[j]].confidence
                  /\ text = TextFedInflation =>
                        /\ Len(updates) = 2
                        /\ beliefs'["fed_policy"].value = "tightening"
                        /\ beliefs'["fed_policy"].confidence = 800
                        /\ beliefs'["inflation_trend"].value = "rising"
                        /\ beliefs'["inflation_trend"].confidence = 700]_vars

\* the seeded tracker after "Fed raises rates amid inflation rising"
C10_Witness ==
    /\ seeded = 1
    /\ Len(belief_history) = 12
    /\ belief_history[11].key = "fed_policy" /\ belief_history[11].old_value = "neutral"
    /\ belief_history[12].key = "inflation_trend" /\ belief_history[12].old_value = "moderate"
    /\ beliefs["fed_policy"].value = "tightening" /\ beliefs["fed_policy"].confidence = 800
    /\ beliefs["inflation_trend"].value = "rising" /\ beliefs["inflation_trend"].confidence = 700

\* C11: update_beliefs_from_news on the empty string, or on a text with none of the rule
\* phrases in it, returns an empty list and leaves the belief records, the change log
\* and the causal links as they were.
C11_NoPhraseNoChange ==
    \A text \in Texts :
        (text = TextEmpty \/ ExpectedRules(text) = << >>) =>
            LET R == update_beliefs_from_news(Store, text, now)
            IN  /\ R.updates = << >>
                /\ R.S.beliefs = beliefs
                /\ R.S.belief_history = belief_history
                /\ R.S.causal_links = causal_links

\* a seeded tracker with a direct update and an added link, on which "" and
\* "Quiet day, fed raise" return the empty list
C11_Witness ==
    /\ seeded = 1
    /\ "x" \in DOMAIN beliefs
    /\ Len(LinksOf("fed_policy")) = 2
    /\ update_beliefs_from_news(Store, TextEmpty, now).updates = << >>
    /\ update_beliefs_from_news(Store, TextQuiet, now).updates = << >>
    /\ update_beliefs_from_news(Store, TextCutThenHike, now).updates # << >>

\* the events of the change log on a key, oldest first
EventsOn(key) == SelectSeq(belief_history, LAMBDA e : e.key = key)

\* C12: with the one tracker shared by concurrent handlers, a reader running
\* get_belief, get_all_beliefs or get_belief_summary never sees the change event of an
\* update_belief without the record it announces, nor a record without its event: what
\* get_belief returns for a key is the record of the newest event on the key (None if
\* there is none), counted once per event, and the newest event get_belief_summary
\* shows agrees with the belief it shows for that key.
C12_NoTornRead ==
    /\ \A key \in Keys :
          LET events == EventsOn(key)
              got == get_belief(Store, key, now)
          IN  IF events = << >>
              THEN got = ReturnedNone
              ELSE /\ got.kind = "belief"
                   /\ got.value.value = events[Len(events)].new_value
                   /\ got.value.confidence = events[Len(events)].new_confidence
                   /\ got.value.last_updated = events[Len(events)].timestamp
                   /\ got.value.update_count = Len(events)
    /\ LET summary == get_belief_summary(Store, now)
       IN  (summary.kind = "summary" /\ summary.value.recent_changes # << >>) =>
               LET recent == summary.value.recent_changes
                   newest == recent[Len(recent)]
                   shown == [tier \in {"high_confidence", "medium_confidence", "low_confidence"}
                               |-> summary.value[tier]]
               IN  \A tier \in DOMAIN shown :
                       newest.key \in DOMAIN shown[tier] =>
                           /\ shown[tier][newest.key].value = newest.new_value
                           /\ shown[tier][newest.key].confidence = newest.new_confidence

\* a fraction in lowest terms (the comparisons multiply across)
RECURSIVE Gcd(_, _)
Gcd(a, b) == IF b = 0 THEN a ELSE Gcd(b, a % b)
Abs(a) == IF a < 0 THEN 0 - a ELSE a
Lowest(f) == LET g == Gcd(Abs(f.n), f.d) IN Frac(f.n \div g, f.d \div g)

\* the current_confidence get_belief returns for a present key at query time t
CurrentAt(key, t) == Lowest(get_belief(Store, key, t).value.current_confidence)

\* the query times at or after the last update of a key
LaterTimes(key) == beliefs[key].last_updated..MaxClock

\* C13, as claimed: for a stored record, with no update between the reads, the
\* current_confidence of get_belief does not increase as the query time advances when
\* decay_factor < 1, stays the same when decay_factor = 1, and is never below 0.1
\* (stated from each day to the next, from the day of the update on).
C13_AsClaimed ==
    \A key \in DOMAIN beliefs :
        \A t \in LaterTimes(key) :
            LET earlier == CurrentAt(key, t)
                later == CurrentAt(key, t + 1)
                decay_factor == beliefs[key].decay_factor
            IN  /\ FracLe(Milli(100), earlier)
                /\ FracLe(Milli(100), later)
                /\ decay_factor.n < decay_factor.d =>
                       FracLe(later, earlier)
                /\ decay_factor.n = decay_factor.d => FracEq(later, earlier)

\* C13, amended: the same for decay factors in [0, 1): a negative decay_factor is
\* below 1 too, and its even powers bring the confidence back up.
C13_DecayMonotone ==
    \A key \in DOMAIN beliefs :
        \A t \in LaterTimes(key) :
            LET earlier == CurrentAt(key, t)
                later == CurrentAt(key, t + 1)
                decay_factor == beliefs[key].decay_factor
            IN  /\ FracLe(Milli(100), earlier)
                /\ FracLe(Milli(100), later)
                /\ ( /\ 0 <= decay_factor.n
                     /\ decay_factor.n < decay_factor.d ) =>
                       FracLe(later, earlier)
                /\ decay_factor.n = decay_factor.d => FracEq(later, earlier)

\* two days after an update with decay factor 0.5, the three reads 0.9 > 0.45 > 0.225;
\* beside it a seeded record (0.95) that has decayed as well
C13_Witness ==
    /\ seeded = 1
    /\ "x" \in DOMAIN beliefs
    /\ beliefs["x"].decay_factor = Frac(1, 2)
    /\ beliefs["x"].last_updated = 0
    /\ now = 2
    /\ CurrentAt("x", 0) = Frac(900, 1)
    /\ CurrentAt("x", 1) = Frac(450, 1)
    /\ CurrentAt("x", now) = Frac(225, 1)
    /\ FracLt(CurrentAt("fed_policy", now), CurrentAt("fed_policy", 0))

\* max(0.1, baseConfidence x decayFactor^(days)) as the specification writes it, the
\* power taken by repeated multiplication of the fraction
RECURSIVE EffectiveConfidence(_, _, _)
EffectiveConfidence(base, decay_factor, days) ==
    IF days = 0
    THEN (IF FracLt(base, Milli(100)) THEN Milli(100) ELSE base)
    ELSE EffectiveConfidence(Lowest(Frac(base.n * decay_factor.n, base.d * decay_factor.d)),
                             decay_factor, days - 1)

\* C14: get_belief computes current_confidence as
\* max(0.1, confidence x decay_factor^(hours elapsed / 24)): after
\* update_belief("x", "a", 0.9, 0.95) and 24 hours it is 0.855, and after
\* update_belief("x", "a", 0.9, 0.5) and 48 hours it is 0.225.
C14_DecayFormula ==
    \A key \in DOMAIN beliefs :
        \A t \in LaterTimes(key) :
            LET belief == beliefs[key]
                days == t - belief.last_updated
                got == CurrentAt(key, t)
            IN  /\ FracEq(got, EffectiveConfidence(Milli(belief.confidence),
                                                    belief.decay_factor, days))
                /\ ( /\ key = "x" /\ belief.value = "a" /\ belief.confidence = 900
                     /\ belief.decay_factor = Frac(19, 20) /\ days = 1 ) =>
                       got = Frac(855, 1)
                /\ ( /\ key = "x" /\ belief.value = "a" /\ belief.confidence = 900
                     /\ belief.decay_factor = Frac(1, 2) /\ days = 2 ) =>
                       got = Frac(225, 1)

\* update_belief("x", "a", 0.9, 0.5) read 48 hours later
C14_Witness ==
    /\ "x" \in DOMAIN beliefs
    /\ beliefs["x"].value = "a"
    /\ beliefs["x"].confidence = 900
    /\ beliefs["x"].decay_factor = Frac(1, 2)
    /\ now = beliefs["x"].last_updated + 2
    /\ get_belief(Store, "x", now).value.current_confidence = Frac(900, 4)

\* update_belief("x", "a", 0.9, 0.95) read 24 hours later
C14_WitnessDay ==
    /\ "x" \in DOMAIN beliefs
    /\ beliefs["x"].value = "a"
    /\ beliefs["x"].confidence = 900
    /\ beliefs["x"].decay_factor = Frac(19, 20)
    /\ now = beliefs["x"].last_updated + 1
    /\ FracEq(get_belief(Store, "x", now).value.current_confidence, Milli(855))

\* C15: when the query time is before the last_updated of the record (the clock was set
\* back), get_belief takes the elapsed time as 0: it returns the record with
\* current_confidence = max(0.1, confidence), not raised above the stored confidence
\* by a negative exponent.
C15_SkewClamped ==
    \A key \in DOMAIN beliefs :
        now < beliefs[key].last_updated =>
            LET got == get_belief(Store, key, now)
            IN  /\ got.kind = "belief"
                /\ FracEq(got.value.current_confidence,
                          current_confidence(Milli(beliefs[key].confidence)))

\* C16: no operation ends in an error, whatever confidence and decay_factor
\* update_belief was given (a zero or negative decay_factor included): the record holds
\* the value and confidence of the newest event on its key, and every read made
\* afterwards (get_belief, get_all_beliefs, get_belief_summary,
\* get_influenced_beliefs) returns a result.
C16_NoErrors ==
    /\ \A key \in DOMAIN beliefs :
          LET events == EventsOn(key)
          IN  /\ events # << >>
              /\ beliefs[key].value = events[Len(events)].new_value
              /\ beliefs[key].confidence = events[Len(events)].new_confidence
              /\ beliefs[key].decay_factor \in
                    {DefaultDecay} \cup {args[3] : args \in UpdateArgs}
    /\ \A key \in Keys : get_belief(Store, key, now).kind \in {"None", "belief"}
    /\ get_all_beliefs(Store, now).kind = "dict"
    /\ get_belief_summary(Store, now).kind = "summary"
    /\ \A belief_key \in Keys : get_influenced_beliefs(Store, belief_key, now).kind = "list"

\* the bootstrap seed as the specification lists it: (key, value, confidence) and
\* (cause, effect, strength), in order
SeedBeliefs ==
    << <<"fed_policy", "neutral", 600>>, <<"inflation_trend", "moderate", 500>>,
       <<"market_sentiment", "cautious", 700>>, <<"economic_growth", "steady", 600>>,
       <<"interest_rates", "stable", 800>>, <<"consumer_confidence", "moderate", 500>>,
       <<"corporate_earnings", "growing", 600>>, <<"geopolitical_risk", "elevated", 700>>,
       <<"technology_disruption", "accelerating", 800>>,
       <<"energy_transition", "ongoing", 900>> >>
SeedEdges ==
    << <<"fed_policy", "interest_rates", 900>>, <<"interest_rates", "market_sentiment", 700>>,
       <<"inflation_trend", "fed_policy", 800>>, <<"economic_growth", "corporate_earnings", 800>>,
       <<"geopolitical_risk", "market_sentiment", 600>>,
       <<"consumer_confidence", "economic_growth", 700>> >>

\* S is the seeded store: the 10 listed beliefs with update_count 1, a log of the 10
\* 'new' events in the listed order, the 6 listed links and nothing else, and a
\* get_belief_summary that counts 6 links
IsSeed(S, utcnow) ==
    /\ DOMAIN S.beliefs = {SeedBeliefs[i][1] : i \in 1..10}
    /\ Cardinality(DOMAIN S.beliefs) = 10
    /\ \A i \in 1..10 :
          /\ S.beliefs[SeedBeliefs[i][1]].value = SeedBeliefs[i][2]
          /\ S.beliefs[SeedBeliefs[i][1]].confidence = SeedBeliefs[i][3]
          /\ S.beliefs[SeedBeliefs[i][1]].update_count = 1
    /\ Len(S.belief_history) = 10
    /\ \A i \in 1..10 :
          /\ S.belief_history[i].change_type = "new"
          /\ S.belief_history[i].key = SeedBeliefs[i][1]
          /\ S.belief_history[i].new_value = SeedBeliefs[i][2]
          /\ S.belief_history[i].new_confidence = SeedBeliefs[i][3]
          /\ S.belief_history[i].old_value = None
    /\ DOMAIN S.causal_links = {SeedEdges[i][1] : i \in 1..6}
    /\ \A i \in 1..6 :
          S.causal_links[SeedEdges[i][1]] =
              << [effect |-> SeedEdges[i][2], strength |-> SeedEdges[i][3]] >>
    /\ get_belief_summary(S, utcnow).kind = "summary"
    /\ get_belief_summary(S, utcnow).value.causal_links_count = 6

\* C17: a newly constructed tracker has no beliefs, no links and no history;
\* initialize_default_beliefs applied once to it gives exactly the 10 listed keys, each
\* with its listed value and confidence and update_count 1, a change log of exactly 10
\* events, all 'new', in the listed order, exactly the 6 listed links with their
\* strengths, and a get_belief_summary with causal_links_count 6.
C17_SeedExact ==
    /\ (seeded = 0 /\ belief_history = << >> /\ LinkCount = 0) =>
          /\ beliefs = EmptyDict
          /\ causal_links = EmptyDict
          /\ IsSeed(initialize_default_beliefs(Store, now), now)
    /\ (seeded = 1 /\ Len(belief_history) = 10 /\ LinkCount = 6) => IsSeed(Store, now)

\* the tracker a day after BuffettAgent.__init__ seeded it, nothing else done
C17_Witness ==
    /\ seeded = 1
    /\ now = 1
    /\ Len(belief_history) = 10
    /\ LinkCount = 6
    /\ belief_history[10].key = "energy_transition"
    /\ belief_history[10].timestamp = 0
    /\ get_belief_summary(Store, now).value.total_beliefs = 10

\* the items of a stored record
RecordFields == {"value", "confidence", "last_updated", "decay_factor", "update_count"}

\* C18: get_belief, get_all_beliefs, get_belief_summary and get_influenced_beliefs are
\* pure reads: each leaves every stored record (value, confidence, last_updated,
\* decay_factor, update_count), the change log and the causal links as they were, and
\* the decayed current_confidence is never written into a stored record.
C18_ReadsArePure ==
    /\ \A key \in Keys : get_belief_store(Store, key, now) = Store
    /\ get_all_beliefs_store(Store, now) = Store
    /\ get_belief_summary_store(Store, now) = Store
    /\ \A belief_key \in Keys : get_influenced_beliefs_store(Store, belief_key, now) = Store
    /\ \A key \in DOMAIN beliefs :
          LET events == EventsOn(key)
          IN  /\ DOMAIN beliefs[key] = RecordFields
              /\ events # << >>
              /\ beliefs[key].confidence = events[Len(events)].new_confidence
              /\ beliefs[key].last_updated = events[Len(events)].timestamp

\* records that have decayed since they were written, one of them reached through a
\* link as well: every read returns a current_confidence below the one that stays stored
C18_Witness ==
    /\ seeded = 1
    /\ "x" \in DOMAIN beliefs
    /\ beliefs["x"].confidence = 900
    /\ get_belief(Store, "x", now).value.current_confidence = Frac(900, 2)
    /\ get_belief_store(Store, "x", now).beliefs["x"].confidence = 900
    /\ Len(get_influenced_beliefs(Store, "fed_policy", now).value) = 2
    /\ FracLt(CurrentOf("fed_policy"), Milli(beliefs["fed_policy"].confidence))
    /\ get_belief_summary(Store, now).value.total_beliefs = 11

\* C19: a key that has a record has one in every later state, whatever is called and
\* however far its confidence has decayed: a key whose current_confidence is <= 0.2 is
\* not in get_all_beliefs, and get_belief still returns its record.
C19_RecordsStay ==
    /\ [][DOMAIN beliefs \subseteq DOMAIN beliefs']_vars
    /\ [](LET all == get_all_beliefs(Store, now)
          IN  /\ all.kind = "dict"
              /\ \A key \in DOMAIN beliefs :
                    LET got == get_belief(Store, key, now)
                    IN  /\ got.kind = "belief"
                        /\ got.value.value = beliefs[key].value
                        /\ got.value.confidence = beliefs[key].confidence
                        /\ got.value.update_count = beliefs[key].update_count
                        /\ FracLe(got.value.current_confidence, Milli(200)) =>
                               key \notin DOMAIN all.value)

\* a record written at 0.9 two days ago and decayed to the floor: get_all_beliefs has
\* the 10 seeded keys and not this one, get_belief returns it
C19_Witness ==
    /\ seeded = 1
    /\ "x" \in DOMAIN beliefs
    /\ beliefs["x"].confidence = 900
    /\ now = beliefs["x"].last_updated + 2
    /\ get_belief(Store, "x", now).kind = "belief"
    /\ FracEq(CurrentOf("x"), Milli(100))
    /\ Cardinality(DOMAIN beliefs) = 11
    /\ Cardinality(DOMAIN get_all_beliefs(Store, now).value) = 10

\* C20: the change log is append-only: after any operation the log as it was before is
\* a prefix of the log after, every earlier event the same at the same position; no
\* operation reorders, edits or removes an event.
C20_LogAppendOnly ==
    [][/\ Len(belief_history) <= Len(belief_history')
       /\ \A i \in 1..Len(belief_history) : belief_history'[i] = belief_history[i]]_vars

\* a log of the seeding and two later updates of the same key on different days: the
\* first of the two is still in its place, as written
C20_Witness ==
    /\ seeded = 1
    /\ Len(belief_history) = 12
    /\ belief_history[1].key = "fed_policy" /\ belief_history[1].change_type = "new"
    /\ belief_history[11].key = "x" /\ belief_history[11].change_type = "new"
    /\ belief_history[12].key = "x" /\ belief_history[12].change_type = "update"
    /\ belief_history[11].timestamp < belief_history[12].timestamp
    /\ belief_history[12].old_value = belief_history[11].new_value
    /\ get_belief_summary(Store, now).value.recent_changes = SubSeq(belief_history, 8, 12)

\* the add_causal_link calls the seeding makes with a cause
SeedCalls(cause) == Cardinality({i \in 1..Len(causal_relationships) :
                                    causal_relationships[i][1] = cause})

\* C21: for every cause the number of links stored equals the number of
\* add_causal_link calls made with it: a call appends one link, also when the
\* (cause, effect) pair has a link already, whose strength stays; no operation removes,
\* merges or changes a link, and only add_causal_link (the seeding's calls included)
\* adds one.
C21_LinksAccumulate ==
    [][/\ \A cause \in Keys :
             /\ Len(LinksOf(cause)) <= Len(LinksOf(cause)')
             /\ \A i \in 1..Len(LinksOf(cause)) : LinksOf(cause)'[i] = LinksOf(cause)[i]
       /\ \A cause \in LinkCauses, effect \in LinkEffects, strength \in LinkStrengths :
             AddCausalLink(cause, effect, strength) =>
                 /\ LinksOf(cause)' = Append(LinksOf(cause),
                                             [effect |-> effect, strength |-> strength])
                 /\ \A other \in Keys \ {cause} : LinksOf(other)' = LinksOf(other)
       /\ InitializeDefaultBeliefs =>
             \A cause \in Keys : Len(LinksOf(cause)') = Len(LinksOf(cause)) + SeedCalls(cause)
       /\ causal_links' # causal_links =>
             \/ InitializeDefaultBeliefs
             \/ \E cause \in LinkCauses, effect \in LinkEffects, strength \in LinkStrengths :
                    AddCausalLink(cause, effect, strength)]_vars

\* the seeded link of fed_policy and two added links to one effect, the second with
\* another strength: three links, the first strength of the pair as it was
C21_Witness ==
    /\ seeded = 1
    /\ LinksOf("fed_policy") = << [effect |-> "interest_rates", strength |-> 900],
                                  [effect |-> "x", strength |-> 500],
                                  [effect |-> "x", strength |-> 900] >>
    /\ Len(LinksOf("interest_rates")) = 1

\* C22: get_belief_summary reports total_beliefs = the number of keys of
\* get_all_beliefs, causal_links_count = the number of distinct causes with at least
\* one link (with or without a belief of their own), and recent_changes = the last
\* min(5, length) events of the log in append order, oldest first (empty for an empty
\* log).
C22_SummaryCounts ==
    LET summary == get_belief_summary(Store, now)
        all == get_all_beliefs(Store, now)
        n == Len(belief_history)
        m == IF n < 5 THEN n ELSE 5
    IN  summary.kind = "summary" =>
            /\ summary.value.total_beliefs = Cardinality(DOMAIN all.value)
            /\ summary.value.causal_links_count =
                  Cardinality({cause \in Keys : Len(LinksOf(cause)) >= 1})
            /\ Len(summary.value.recent_changes) = m
            /\ \A j \in 1..m : summary.value.recent_changes[j] = belief_history[n - m + j]

\* an unseeded tracker: a link out of a cause with no belief is counted, the log is
\* shorter than 5 and a decayed belief is not in the total
C22_Witness ==
    /\ seeded = 0
    /\ "fed_policy" \notin DOMAIN beliefs
    /\ Len(LinksOf("fed_policy")) = 2
    /\ get_belief_summary(Store, now).value.causal_links_count = 1
    /\ Len(belief_history) = 2
    /\ get_belief_summary(Store, now).value.recent_changes = belief_history
    /\ "x" \in DOMAIN beliefs
    /\ get_belief_summary(Store, now).value.total_beliefs = 0

\* a seeded tracker with a log of 12 events: the last 5 are reported, 6 causes counted
C22_WitnessLong ==
    /\ seeded = 1
    /\ Len(belief_history) = 12
    /\ Len(get_belief_summary(Store, now).value.recent_changes) = 5
    /\ get_belief_summary(Store, now).value.recent_changes[1] = belief_history[8]
    /\ get_belief_summary(Store, now).value.causal_links_count = 6
    /\ Len(LinksOf("fed_policy")) = 3

\* C23: update_belief on a key whose current_confidence has decayed to 0.2 or less, so
\* that get_all_beliefs does not show it, is a further update and not a first one: the
\* event appended has change_type 'update' and carries the stored value and the stored
\* confidence, and update_count becomes the count before plus 1.
C23_HiddenKeyIsUpdated ==
    [][\A key \in UpdateKeys :
          ( /\ key \in DOMAIN beliefs
            /\ key \notin DOMAIN get_all_beliefs(Store, now).value
            /\ FracLe(CurrentOf(key), Milli(200)) ) =>
              \A args \in UpdateArgs :
                  UpdateBelief(key, args[1], args[2], args[3]) =>
                      LET event == belief_history'[Len(belief_history')]
                      IN  /\ Len(belief_history') = Len(belief_history) + 1
                          /\ event.key = key
                          /\ event.change_type = "update"
                          /\ event.old_value = beliefs[key].value
                          /\ event.old_confidence = beliefs[key].confidence
                          /\ beliefs'[key].update_count = beliefs[key].update_count + 1]_vars

\* a record written at 0.9 with decay factor 0, updated a day later, when it had
\* decayed to the floor: the event is an 'update' from 0.9, the count is 2
C23_Witness ==
    /\ Len(belief_history) >= 2
    /\ LET n == Len(belief_history)
       IN  /\ belief_history[n].key = "x" /\ belief_history[n - 1].key = "x"
           /\ belief_history[n - 1].new_confidence = 900
           /\ belief_history[n - 1].new_value = "b"
           /\ belief_history[n].timestamp > belief_history[n - 1].timestamp
           /\ belief_history[n].change_type = "update"
           /\ belief_history[n].old_confidence = 900
           /\ belief_history[n].new_confidence = 50
    /\ "x" \in DOMAIN beliefs
    /\ beliefs["x"].update_count = 2

\* the collaborator named in q is called by process_query and raises
Raises(q) ==
    \/ q.failure \in {"rag", "tickers", "llm"}
    \/ q.failure = "news" /\ q.tickers
    \/ q.failure = "market" /\ q.tool_calls

\* C24: a failure raised by a collaborator during process_query (context retrieval,
\* ticker parsing, news fetch, market-data fetch, language-model call) does not reach
\* the caller: process_query returns, and what it returns has confidence_score 0.1, an
\* 'error' field and the session_id it was given.
C24_FailuresCaught ==
    \A t \in Threads :
        ( /\ "request" \in DOMAIN calls[t]
          /\ calls[t].request = "process_query"
          /\ Raises(calls[t].q) ) =>
            /\ calls[t].kind = "return"
            /\ calls[t].result.confidence_score = 100
            /\ calls[t].result.error # None
            /\ calls[t].result.session_id = calls[t].session_id

\* a query of session s2 whose model call failed, after tickers were found
C24_Witness ==
    /\ "request" \in DOMAIN calls[Handler]
    /\ calls[Handler].request = "process_query"
    /\ calls[Handler].q.failure = "llm"
    /\ calls[Handler].q.tickers
    /\ calls[Handler].session_id = "s2"
    /\ calls[Handler].kind = "return"
    /\ calls[Handler].result.error = "llm"
    /\ calls[Handler].result.confidence_score = 100

\* the step is the request that thread t keeps in the next state
RequestStep(t) ==
    /\ "request" \in DOMAIN calls'[t]
    /\ \/ /\ calls'[t].request = "process_query"
          /\ ProcessQuery(t, calls'[t].session_id, calls'[t].q)
       \/ /\ calls'[t].request = "analyze_portfolio"
          /\ AnalyzePortfolio(t, calls'[t].q)

\* the request that thread t keeps has failed: process_query returned its error
\* result, or analyze_portfolio answered 500
Failed(call) ==
    \/ call.request = "process_query" /\ call.kind = "return" /\ call.result.error # None
    \/ call.request = "process_query" /\ call.kind = "raise"
    \/ call.request = "analyze_portfolio" /\ call.result.status = 500

\* C30: a request that fails (process_query returning its error result, portfolio
\* analysis failing after get_news_about_symbols has run) leaves the belief records
\* and the change log as they were before the request.
C30_FailedRequestChangesNothing ==
    [][\A t \in Threads :
          (RequestStep(t) /\ Failed(calls'[t])) =>
              /\ beliefs' = beliefs
              /\ belief_history' = belief_history]_vars

\* C25: with the calls made one after the other, for every key with a record:
\* update_count is the number of change events on the key; the first of them is 'new'
\* and the later ones are 'update'; each 'update' event's old_value and old_confidence
\* are the new_value and new_confidence of the event before it on the key; and the
\* record's value and confidence are those of the last event.
C25_RecordMatchesLog ==
    \A key \in DOMAIN beliefs :
        LET events == EventsOn(key)
        IN  /\ beliefs[key].update_count = Len(events)
            /\ Len(events) >= 1
            /\ events[1].change_type = "new"
            /\ \A i \in 2..Len(events) :
                  /\ events[i].change_type = "update"
                  /\ events[i].old_value = events[i - 1].new_value
                  /\ events[i].old_confidence = events[i - 1].new_confidence
            /\ beliefs[key].value = events[Len(events)].new_value
            /\ beliefs[key].confidence = events[Len(events)].new_confidence

\* three events on fed_policy: seeded neutral at 0.6, then tightening and easing at 0.8
C25_Witness ==
    /\ "fed_policy" \in DOMAIN beliefs
    /\ beliefs["fed_policy"].update_count = 3
    /\ LET events == EventsOn("fed_policy")
       IN  /\ Len(events) = 3
           /\ events[2].new_confidence # events[1].new_confidence
           /\ events[2].new_value # events[1].new_value
           /\ events[3].new_value # events[2].new_value

\* C26: two update_belief calls on one key that run interleaved in two threads lose
\* nothing: once both have returned, the key's update_count has grown by one per call
\* (it is the number of change events on the key, one per call) and the log holds at
\* most one 'new' event on the key.
C26_NoLostUpdate ==
    (\A t \in Threads : calls[t].pc = "idle") =>
        \A key \in DOMAIN beliefs :
            LET events == EventsOn(key)
            IN  /\ beliefs[key].update_count = Len(events)
                /\ Cardinality({i \in 1..Len(events) : events[i].change_type = "new"}) <= 1

\* C27: get_influenced_beliefs applies no 0.2 threshold: a link whose effect has a
\* record with current_confidence 0.2 or less, which get_all_beliefs leaves out, still
\* gives an entry, with the belief get_belief returns for the effect and the strength
\* of the link.
C27_InfluencedShowsHidden ==
    \A cause \in DOMAIN causal_links :
        LET influenced == get_influenced_beliefs(Store, cause, now)
            links == causal_links[cause]
        IN  influenced.kind = "list" =>
                \A i \in 1..Len(links) :
                    ( /\ links[i].effect \in DOMAIN beliefs
                      /\ FracLe(CurrentOf(links[i].effect), Milli(200)) ) =>
                        /\ links[i].effect \notin DOMAIN get_all_beliefs(Store, now).value
                        /\ \E j \in 1..Len(influenced.value) :
                              /\ influenced.value[j].belief
                                    = get_belief(Store, links[i].effect, now).value
                              /\ influenced.value[j].influence_strength = links[i].strength

\* a link from fed_policy to x, x decayed to the floor: get_influenced_beliefs returns
\* it, get_all_beliefs does not
C27_Witness ==
    /\ "x" \in DOMAIN beliefs
    /\ beliefs["x"].confidence = 900
    /\ FracEq(CurrentOf("x"), Milli(100))
    /\ "x" \notin DOMAIN get_all_beliefs(Store, now).value
    /\ \E i \in 1..Len(LinksOf("fed_policy")) : LinksOf("fed_policy")[i].effect = "x"
    /\ \E j \in 1..Len(get_influenced_beliefs(Store, "fed_policy", now).value) :
          get_influenced_beliefs(Store, "fed_policy", now).value[j].belief
              = get_belief(Store, "x", now).value

\* the keys with a record that get_all_beliefs leaves out
HiddenKeys == DOMAIN beliefs \ DOMAIN get_all_beliefs(Store, now).value

\* the step appends no change event on the key: no update_belief on it
NoUpdateOn(key) ==
    \A i \in (Len(belief_history) + 1)..Len(belief_history') : belief_history'[i].key # key

\* what no step but an update_belief on the key does: the record of a key stays as it
\* is, and the clock does not go back
RecordsKept ==
    /\ now' >= now
    /\ \A key \in DOMAIN beliefs :
          NoUpdateOn(key) => key \in DOMAIN beliefs' /\ beliefs'[key] = beliefs[key]

\* C28, as claimed: under a clock that never goes back, a key with a record and a
\* decay_factor of at most 1 that get_all_beliefs leaves out stays out of every later
\* get_all_beliefs until the next update_belief on it; reads, add_causal_link and
\* updates of other keys do not bring it back.  (No step but an update_belief on the key
\* changes its record, and the record as it is stays out at every later time.)
C28_AsClaimed ==
    /\ [][RecordsKept]_vars
    /\ [](\A key \in HiddenKeys :
              beliefs[key].decay_factor.n <= beliefs[key].decay_factor.d =>
                  \A t \in (now + 1)..MaxClock :
                      key \notin DOMAIN get_all_beliefs(Store, t).value)

\* C28, amended: the same for decay factors in [0, 1]: a negative decay_factor is at
\* most 1 too, and its even powers bring the confidence back above 0.2.
C28_HiddenStaysHidden ==
    /\ [][RecordsKept]_vars
    /\ [](\A key \in HiddenKeys :
              ( /\ 0 <= beliefs[key].decay_factor.n
                /\ beliefs[key].decay_factor.n <= beliefs[key].decay_factor.d ) =>
                  \A t \in (now + 1)..MaxClock :
                      key \notin DOMAIN get_all_beliefs(Store, t).value)

\* x written at 0.9 with decay factor 0: in get_all_beliefs that day, left out of it a
\* day later and still two days later, a link to it added meanwhile
C28_Witness ==
    /\ "x" \in HiddenKeys
    /\ beliefs["x"].decay_factor = Frac(0, 1)
    /\ beliefs["x"].confidence = 900
    /\ beliefs["x"].last_updated = 0
    /\ now = 2
    /\ "x" \notin DOMAIN get_all_beliefs(Store, 1).value
    /\ "x" \in DOMAIN get_all_beliefs(Store, 0).value
    /\ \E i \in 1..Len(LinksOf("fed_policy")) : LinksOf("fed_policy")[i].effect = "x"

\* C29: update_belief(k, ...) leaves the record of every other key and all causal links
\* as they are: it changes the record of k and adds one event at the end of the log, and
\* nothing else (the same for each update update_beliefs_from_news makes);
\* add_causal_link leaves every belief record and the change log as they are.
C29_Frame ==
    [][/\ \A key \in UpdateKeys, args \in UpdateArgs :
             UpdateBelief(key, args[1], args[2], args[3]) =>
                 /\ DOMAIN beliefs' = DOMAIN beliefs \cup {key}
                 /\ \A other \in DOMAIN beliefs \ {key} : beliefs'[other] = beliefs[other]
                 /\ causal_links' = causal_links
                 /\ Len(belief_history') = Len(belief_history) + 1
                 /\ SubSeq(belief_history', 1, Len(belief_history)) = belief_history
       /\ \A text \in Texts :
             UpdateBeliefsFromNews(text) =>
                 /\ causal_links' = causal_links
                 /\ \A other \in DOMAIN beliefs :
                       (\A i \in 1..Len(news_rules) :
                           rule_fires[text][i] => news_rules[i].key # other) =>
                               beliefs'[other] = beliefs[other]
       /\ \A cause \in LinkCauses, effect \in LinkEffects, strength \in LinkStrengths :
             AddCausalLink(cause, effect, strength) =>
                 /\ beliefs' = beliefs
                 /\ belief_history' = belief_history]_vars

\* after the seeding and a link added, x updated on a later day: the seeded records
\* still carry the day of the seeding, the seven links are there
C29_Witness ==
    /\ seeded = 1
    /\ "x" \in DOMAIN beliefs
    /\ belief_history[Len(belief_history)].key = "x"
    /\ beliefs["x"].last_updated > beliefs["fed_policy"].last_updated
    /\ beliefs["fed_policy"].update_count = 1
    /\ beliefs["energy_transition"].last_updated = beliefs["fed_policy"].last_updated
    /\ LinkCount = 7
    /\ Len(LinksOf("fed_policy")) = 2

====
